---- MODULE Spec2Model ----
(***************************************************************************)
(* A model of media-luna ("eureka"), a Shazam-like audio recogniser.       *)
(*                                                                         *)
(* Part I   the matcher: findMatches, calculateTemporalScore and           *)
(*          findMostCommonTimeDiff (recognition.go, kept in src/README.md) *)
(* Part II  the microphone recorder and the microphone loop:               *)
(*          MicrophoneRecorder (src/internal/database/databse_base.go) and *)
(*          RecognizeFromMicrophone / processRealtimeAudioWithMatch        *)
(*          (src/README.md)                                                *)
(* Part III the peak picker: PickPeaks, getFrequencyBands, getMagnitudes   *)
(*          and isLocalPeak (src/internal/database/databse_base.go)        *)
(* Part IV  the fingerprint encoders: GenerateFingerprints and             *)
(*          generateFingerprintsWithMinimalTolerance (same file)           *)
(* Part V   the command line: main (main.go, kept in src/unnamed/part_000) *)
(*                                                                         *)
(* Scores are float64 in the source.  They are kept here as exact          *)
(* fractions <<numerator, denominator>> and compared by cross              *)
(* multiplication.                                                         *)
(***************************************************************************)
EXTENDS Integers, Sequences, FiniteSets, Bags, TLC

VARIABLES
    \* ---- Part I: one call of findMatches ----
    numHashes,         \* len(sampleFingerprints): the query holds the hashes 1..numHashes
    iterStart,         \* where Go's map iteration happens to put hash 1 in `hashes`
    isFromMicrophone,  \* the mode argument of findMatches
    dbShape,           \* the store: for each song id, the index of its row layout
    failBatch,         \* the batch number on which QueryFingerprints fails (0: never)
    songFail,          \* the song id for which GetSongByID fails (0: none)
    fmPc,              \* position inside findMatches
    i,                 \* the batching loop's index
    allDbMatches,      \* the rows collected so far (a bag of store rows)
    queryLog,          \* one entry per QueryFingerprints call: the number of hashes passed
    fmResult,          \* what findMatches returned
    \* ---- Part II: the microphone recorder and RecognizeFromMicrophone ----
    loopPc,            \* position of RecognizeFromMicrophone
    loopEvent,         \* the select case through which the loop left Recording
    loopErr,           \* whether RecognizeFromMicrophone has an error to return
    isRecording,       \* mr.isRecording
    streamState,       \* the PortAudio stream: "none", "open", "started", "stopped"
    audioBuffer,       \* mr.audioBuffer, as runs <<first sample index, length>>
    captured,          \* samples delivered by the driver so far
    callbacks,         \* capture callbacks so far
    cbPc,              \* position of the capture callback
    jobs,              \* the processRealtimeAudioWithMatch goroutines in flight (a bag)
    matchFoundChan,    \* the loop's match channel (capacity 1)
    consumedMatches,   \* the matches the loop received from matchFoundChan
    obtained,          \* every Match a job got back from findMatches(.., true)
    dropped,           \* whether some job found the channel full and dropped its match
    jobFailed,         \* whether some job ended on a panic, a compute error or a store error
    segRunning,        \* processAudioSegment goroutines still computing
    segSending,        \* processAudioSegment goroutines at a send on resultChannel
    resultChannel,     \* number of results queued in mr.resultChannel (capacity 10)
    \* ---- Part III: one call of PickPeaks ----
    sampleRate,        \* the sampleRate argument
    gridT,             \* len(spectrogram): the number of frames
    gridF,             \* len(spectrogram[0]): the number of bins of every frame
    gridCells,         \* the cells that are not zero: <<t, f>> |-> <<re, im>>, in thousandths
    ppPc,              \* position inside PickPeaks
    ppT,               \* the frame loop's index t
    peaks,             \* the peaks appended so far
    peakBands,         \* for each peak, the number (1..6) of the band that appended it
    \* ---- Part IV: calls of a fingerprint encoder ----
    encPeaks,          \* the peaks argument
    encMode,           \* "base": GenerateFingerprints; "tolerance": ...WithMinimalTolerance;
                       \* "microphone": a recognition goroutine from its peaks on
    encPc,             \* position inside the encoder
    fingerprints,      \* the tokens appended so far
    processed,         \* the tolerance encoder's counter
    encPairs,          \* for each token, the <<i, j>> of the loops that appended it
    encRun,            \* 1 for the first call, 2 for a second call on the same peaks
    encPrev,           \* what the first call returned
    \* ---- Part V: one run of the command ----
    mainFlags,         \* the six flags after flag.Parse()
    mainPc,            \* position inside main
    mainOps,           \* the operations of the application called so far
    mainErrors,        \* the number of logger.Error calls of main
    exitCode,          \* the exit code of the process; -1 while it runs
    mainSongs          \* len(songs) of a successful app.List(); -1 before

matchVars == <<numHashes, iterStart, isFromMicrophone, dbShape, failBatch, songFail,
               fmPc, i, allDbMatches, queryLog, fmResult>>

micVars == <<loopPc, loopEvent, loopErr, isRecording, streamState, audioBuffer,
             captured, callbacks, cbPc, jobs, matchFoundChan,
             consumedMatches, obtained, dropped, jobFailed, segRunning, segSending,
             resultChannel>>

peakVars == <<sampleRate, gridT, gridF, gridCells, ppPc, ppT, peaks, peakBands>>

\* The parts after Part II, each at rest while another part runs.
encVars == <<encPeaks, encMode, encPc, fingerprints, processed, encPairs,
             encRun, encPrev>>

mainVars == <<mainFlags, mainPc, mainOps, mainErrors, exitCode, mainSongs>>

toolVars == <<peakVars, encVars, mainVars>>

vars == <<matchVars, micVars, toolVars>>

\* Part III at rest: PickPeaks is not running.
PeaksIdle ==
    /\ sampleRate = 44100
    /\ gridT = 0
    /\ gridF = 0
    /\ gridCells = << >>
    /\ ppPc = "done"
    /\ ppT = 0
    /\ peaks = << >>
    /\ peakBands = << >>

\* Part IV at rest: no encoder is running.
EncIdle ==
    /\ encPeaks = << >>
    /\ encMode = "base"
    /\ encPc = "done"
    /\ fingerprints = << >>
    /\ processed = 0
    /\ encPairs = << >>
    /\ encRun = 2
    /\ encPrev = << >>

\* Part V at rest: a run with no flag has ended.
MainIdle ==
    /\ mainFlags = [file |-> "", recognize |-> "", microphone |-> FALSE,
                    list |-> FALSE, cleanup |-> FALSE, delete |-> -1]
    /\ mainPc = "exited"
    /\ mainOps = << >>
    /\ mainErrors = 1
    /\ exitCode = 1
    /\ mainSongs = -1

ToolsIdle == PeaksIdle /\ EncIdle /\ MainIdle

(***************************************************************************)
(* Bounds of the model                                                     *)
(***************************************************************************)
MaxHashes == 2001     \* the largest query map
NumSongs == 6         \* songs in the store
MaxAlike == 2         \* songs of the store that may share one row layout
MaxCallbacks == 3     \* capture callbacks in one run
MaxJobs == 2          \* recognition goroutines of the loop in flight at once
MaxPeaks == 3         \* peaks of a list taken freely from the alphabet of peaks
MaxSegCallbacks == 12 \* capture callbacks in a run of the recorder's own goroutines

(***************************************************************************)
(* Part I: the matcher                                                     *)
(***************************************************************************)
maxBatchSize == 1000
maxResults == 5

Min(a, b) == IF a < b THEN a ELSE b

\* The offset the query map holds for hash h (anchor times are multiples of
\* the 23 ms hop).
sampleOffset(h) == 23 * (h % 7)

\* hashes[k], k in 1..n: the order in which `for hash := range sampleFingerprints`
\* delivered the keys.  Go leaves the order unspecified; the orders considered
\* are the rotations that put hash 1 at position iterStart + 1.
HashAt(k, n) == ((k - 1 - iterStart) % n) + 1

\* Row layouts of a song in the store.  A layout is a sequence of buckets
\* <<delta, count>>: the song has, for each h in 1..count, the row
\* (hash h, offset sampleOffset(h) + delta).
Shapes == << << >>,
             << <<-23, 60>> >>,
             << <<23, 16>> >>,
             << <<0, 22>>, <<-46, 22>> >>,
             << <<0, 14>>, <<69, 3>> >> >>

SongIDs == 1..NumSongs

SongRows(s, shape) ==
    UNION { { [Hash |-> h, SongID |-> s, Offset |-> sampleOffset(h) + shape[b][1]]
              : h \in 1..shape[b][2] } : b \in 1..Len(shape) }

\* The fingerprints table: the rows of one song, and all rows.
rowsOfSong(s) == SongRows(s, Shapes[dbShape[s]])
fingerprintRows == UNION { rowsOfSong(s) : s \in SongIDs }

\* QueryFingerprints(hashes): every row whose hash is among the given ones.
QueryFingerprints(batchHashes) == { r \in fingerprintRows : r.Hash \in batchHashes }

\* end := i + maxBatchSize; if end > len(hashes) { end = len(hashes) }
BatchEndNoClampToBatch(idx, n) == n
BatchEnd(idx, n) == Min(idx + maxBatchSize, n)

\* hashes[i:end]
BatchHashes(idx, n) == { HashAt(k, n) : k \in (idx + 1)..BatchEnd(idx, n) }

minMatches(isMic) == IF isMic THEN 3 ELSE 5

scoreThresholdFileOnly(isMic) == <<1, 10>>
scoreThreshold(isMic) == IF isMic THEN <<5, 100>> ELSE <<1, 10>>

normalizationFactorSwapped(isMic) == IF isMic THEN 100 ELSE 50
normalizationFactor(isMic) == IF isMic THEN 50 ELSE 100

\* a > b on fractions
ScoreGT(a, b) == a[1] * b[2] > b[1] * a[2]
ScoreEQ(a, b) == a[1] * b[2] = b[1] * a[2]

\* timeDiff := dbMatch.Offset - sampleOffset
TimeDiff(r) == r.Offset - sampleOffset(r.Hash)

\* songMatches[s]: the rows of song s among allDbMatches, as a bag of rows.
songMatches(all, s) ==
    [r \in { x \in DOMAIN all : x.SongID = s } |-> all[r]]

\* timeDiffCounts[d]: how many of the song's TimeMatches have TimeDiff d.
timeDiffCounts(tms) ==
    [d \in { TimeDiff(r) : r \in DOMAIN tms } |->
        BagCardinality([r \in { x \in DOMAIN tms : TimeDiff(x) = d } |-> tms[r]])]

SetMax(S) == CHOOSE m \in S : \A x \in S : x <= m

maxCountOf(tms) ==
    LET c == timeDiffCounts(tms)
    IN  IF DOMAIN c = {} THEN 0 ELSE SetMax({ c[d] : d \in DOMAIN c })

calculateTemporalScore(tms, isMic) ==
    LET total == BagCardinality(tms)
        maxCount == maxCountOf(tms)
        score == <<maxCount * maxCount, total * normalizationFactor(isMic)>>
    IN  IF total < minMatches(isMic) THEN <<0, 1>>
        ELSE IF ScoreGT(score, <<1, 1>>) THEN <<1, 1>>
        ELSE score

\* findMostCommonTimeDiff: the map is iterated in an unspecified order and a
\* bucket replaces the best one only when strictly larger, so any bucket of
\* the largest count can be returned (0 when there is no bucket).
findMostCommonTimeDiffAnyBucket(tms) ==
    LET c == timeDiffCounts(tms)
    IN  IF DOMAIN c = {} THEN {0} ELSE DOMAIN c
findMostCommonTimeDiff(tms) ==
    LET c == timeDiffCounts(tms)
    IN  IF DOMAIN c = {} THEN {0}
        ELSE { d \in DOMAIN c : c[d] = maxCountOf(tms) }

\* The Match values findMatches appends, one per song that passes both tests and
\* whose GetSongByID succeeds (a failing GetSongByID is logged and the song
\* skipped, lines 379-383).  The result is a set of alternatives: one per
\* choice findMostCommonTimeDiff can make.
Qualifies(all, s, isMic) ==
    LET tms == songMatches(all, s)
    IN  /\ DOMAIN tms # {}
        /\ ~(BagCardinality(tms) < minMatches(isMic))
        /\ ScoreGT(calculateTemporalScore(tms, isMic), scoreThreshold(isMic))

RECURSIVE MatchSets(_, _, _)
MatchSets(S, all, isMic) ==
    IF S = {} THEN { {} }
    ELSE LET s == CHOOSE x \in S : TRUE
             tms == songMatches(all, s)
         IN  { ms \cup { [SongID |-> s,
                          Score  |-> calculateTemporalScore(tms, isMic),
                          Offset |-> d] }
               : ms \in MatchSets(S \ {s}, all, isMic),
                 d \in findMostCommonTimeDiff(tms) }

\* sort.Slice(matches, less) with less(a, b) = a.Score > b.Score.  The sort is
\* not stable and the matches were appended in map-iteration order, so every
\* arrangement in which no later element is `less` than an earlier one can
\* come out.
RECURSIVE SortedOrdersAscending(_)
SortedOrdersAscending(ms) ==
    IF ms = {} THEN { << >> }
    ELSE UNION { { <<m>> \o t : t \in SortedOrdersAscending(ms \ {m}) }
                 : m \in { x \in ms : \A y \in ms : ~ScoreGT(x.Score, y.Score) } }
RECURSIVE SortedOrders(_)
SortedOrders(ms) ==
    IF ms = {} THEN { << >> }
    ELSE UNION { { <<m>> \o t : t \in SortedOrders(ms \ {m}) }
                 : m \in { x \in ms : \A y \in ms : ~ScoreGT(y.Score, x.Score) } }

\* if len(matches) > maxResults { matches = matches[:maxResults] }
TopMatches(q) == IF Len(q) > maxResults THEN SubSeq(q, 1, maxResults) ELSE q

\* Everything lines 346-406 can return for the collected rows.
ScoredAndRanked(all, isMic) ==
    LET cands == { s \in SongIDs : Qualifies(all, s, isMic) /\ s # songFail }
    IN  UNION { { TopMatches(q) : q \in SortedOrders(ms) }
                : ms \in MatchSets(cands, all, isMic) }

NoMatches == [matches |-> << >>, err |-> FALSE]
Failed == [matches |-> << >>, err |-> TRUE]

\* Lines 306-314: collect the keys; an empty query returns at once.
FindMatchesStart ==
    /\ fmPc = "start"
    /\ IF numHashes = 0
         THEN /\ fmPc' = "done"
              /\ fmResult' = NoMatches
         ELSE /\ fmPc' = "batching"
              /\ UNCHANGED fmResult
    /\ i' = 0
    /\ UNCHANGED <<numHashes, iterStart, isFromMicrophone, dbShape, failBatch,
                   songFail, allDbMatches, queryLog>>
    /\ UNCHANGED <<micVars, toolVars>>

\* Lines 324-339: one turn of the batching loop, the store call included.
QueryBatch ==
    /\ fmPc = "batching"
    /\ i < numHashes
    /\ LET batchHashes == BatchHashes(i, numHashes)
       IN  /\ queryLog' = Append(queryLog, Cardinality(batchHashes))
           /\ IF failBatch = Len(queryLog) + 1
                THEN /\ fmPc' = "done"
                     /\ fmResult' = Failed
                     /\ UNCHANGED <<i, allDbMatches>>
                ELSE /\ allDbMatches' =
                            allDbMatches (+) SetToBag(QueryFingerprints(batchHashes))
                     /\ i' = i + maxBatchSize
                     /\ UNCHANGED <<fmPc, fmResult>>
    /\ UNCHANGED <<numHashes, iterStart, isFromMicrophone, dbShape, failBatch, songFail>>
    /\ UNCHANGED <<micVars, toolVars>>

\* Lines 341-406: the loop is over; group, score, sort, truncate, return.
ScoreAndReturn ==
    /\ fmPc = "batching"
    /\ ~(i < numHashes)
    /\ fmPc' = "done"
    /\ IF BagCardinality(allDbMatches) = 0
         THEN fmResult' = NoMatches
         ELSE \E ms \in ScoredAndRanked(allDbMatches, isFromMicrophone) :
                 fmResult' = [matches |-> ms, err |-> FALSE]
    /\ UNCHANGED <<numHashes, iterStart, isFromMicrophone, dbShape, failBatch,
                   songFail, i, allDbMatches, queryLog>>
    /\ UNCHANGED <<micVars, toolVars>>

\* Part II at rest: no recorder exists.
MicIdle ==
    /\ loopPc = "idle"
    /\ loopEvent = "none"
    /\ loopErr = FALSE
    /\ isRecording = FALSE
    /\ streamState = "none"
    /\ audioBuffer = << >>
    /\ captured = 0
    /\ callbacks = 0
    /\ cbPc = "idle"
    /\ jobs = EmptyBag
    /\ matchFoundChan = << >>
    /\ consumedMatches = << >>
    /\ obtained = {}
    /\ dropped = FALSE
    /\ jobFailed = FALSE
    /\ segRunning = 0
    /\ segSending = 0
    /\ resultChannel = 0

\* The query sizes, iteration orders and stores findMatches is run on.  A
\* rotation is one of the map's keys, the batch that fails (failBatch, 0 for
\* none) is one the query has, and the song whose GetSongByID fails (songFail,
\* 0 for none) is one that has rows.
HashCounts == {0, 2, 5, 10, 16, maxBatchSize, maxBatchSize + 1, MaxHashes}
IterStarts == {0, 970}
\* Song ids are interchangeable, so layouts are assigned in ascending order;
\* layout 1 is a song without rows.
DbShapes == { f \in [SongIDs -> 1..Len(Shapes)] :
                /\ \A s \in 1..(NumSongs - 1) : f[s] <= f[s + 1]
                /\ \A k \in 2..Len(Shapes) :
                      Cardinality({ s \in SongIDs : f[s] = k }) <= MaxAlike }

MatchInit ==
    /\ numHashes \in HashCounts
    /\ iterStart \in { r \in IterStarts : r = 0 \/ r < numHashes }
    /\ isFromMicrophone \in BOOLEAN
    /\ dbShape \in DbShapes
    /\ failBatch \in { b \in 0..2 : b = 0 \/ (b - 1) * maxBatchSize < numHashes }
    /\ songFail \in { s \in {0, 1, NumSongs} : s = 0 \/ dbShape[s] > 1 }
    /\ fmPc = "start"
    /\ i = 0
    /\ allDbMatches = EmptyBag
    /\ queryLog = << >>
    /\ fmResult = NoMatches
    /\ MicIdle
    /\ ToolsIdle

MatchNext == FindMatchesStart \/ QueryBatch \/ ScoreAndReturn

SpecMatch == MatchInit /\ [][MatchNext]_vars

(***************************************************************************)
(* Part II: the microphone recorder                                        *)
(***************************************************************************)
SAMPLE_RATE == 44100
BUFFER_DURATION == 5
resultChannelCap == 10
matchFoundChanCap == 1

\* maxSamples := mr.sampleRate * 10
maxSamples == SAMPLE_RATE * 10
\* requiredSamples := mr.sampleRate * BUFFER_DURATION
requiredSamples == SAMPLE_RATE * BUFFER_DURATION
\* minSamples := 44100 * 3
minSamples == SAMPLE_RATE * 3
\* windowSamples := sampleRate * 5
windowSamples == SAMPLE_RATE * 5

\* A slice of samples is kept as the sequence of its runs <<first, length>>
\* of consecutive capture indices; a slice of consecutive samples is one run.
RECURSIVE TotalLen(_)
TotalLen(b) == IF b = << >> THEN 0 ELSE b[1][2] + TotalLen(Tail(b))

\* append(b, in...), where `in` holds the n samples captured from index first on
AppendRun(b, first, n) ==
    IF n = 0 THEN b
    ELSE IF b # << >> /\ b[Len(b)][1] + b[Len(b)][2] = first
      THEN [b EXCEPT ![Len(b)] = <<@[1], @[2] + n>>]
      ELSE Append(b, <<first, n>>)

RECURSIVE Concat(_, _)
Concat(a, b) ==
    IF b = << >> THEN a ELSE Concat(AppendRun(a, b[1][1], b[1][2]), Tail(b))

\* b[k:]
RECURSIVE DropFront(_, _)
DropFront(b, k) ==
    IF k = 0 \/ b = << >> THEN b
    ELSE IF b[1][2] <= k THEN DropFront(Tail(b), k - b[1][2])
    ELSE << <<b[1][1] + k, b[1][2] - k>> >> \o Tail(b)

\* b[:k]
RECURSIVE TakeFirst(_, _)
TakeFirst(b, k) ==
    IF k = 0 \/ b = << >> THEN << >>
    ELSE IF b[1][2] <= k THEN Concat(<<b[1]>>, TakeFirst(Tail(b), k - b[1][2]))
    ELSE << <<b[1][1], k>> >>

\* b[len(b)-k:]
TakeLast(b, k) == DropFront(b, TotalLen(b) - k)

\* copy(b, b[k:]): the first len(b)-k cells receive b[k:], the last k keep
\* what they held.
CopyDownNothing(b, k) == b
CopyDown(b, k) == Concat(DropFront(b, k), TakeLast(b, k))

\* The copy make([]float64, n) followed by copy(...) hands out: a slice of its
\* own, whose samples are counted from the oldest sample it holds.
Rebase(b) ==
    IF b = << >> THEN b ELSE [k \in 1..Len(b) |-> <<b[k][1] - b[1][1], b[k][2]>>]

\* GetAudioBuffer: a copy of the buffer, or of its last 5 seconds.
GetAudioBuffer(b) ==
    IF TotalLen(b) < SAMPLE_RATE * 5 THEN Rebase(b)
    ELSE Rebase(TakeLast(b, SAMPLE_RATE * 5))

\* The sizes of the driver's input the callback is run on.
MicChunks == {0, 4 * SAMPLE_RATE}

\* audioCallback, lines 461-467: an empty input returns at once, otherwise the
\* input is appended.  The recorder holds no lock, and the callback runs on
\* the driver's thread while the loop calls GetAudioBuffer, so the buffer as
\* it is between two statements of the callback is a state of its own.
CallbackAppendWithin(n, limit) ==
    /\ streamState = "started"
    /\ cbPc = "idle"
    /\ callbacks < limit
    /\ callbacks' = callbacks + 1
    /\ IF n = 0
         THEN UNCHANGED <<audioBuffer, captured, cbPc>>
         ELSE /\ audioBuffer' = AppendRun(audioBuffer, captured, n)
              /\ captured' = captured + n
              /\ cbPc' = "appended"
    /\ UNCHANGED <<loopPc, loopEvent, loopErr, isRecording, streamState, jobs, matchFoundChan, consumedMatches, obtained, dropped, jobFailed,
                   segRunning, segSending, resultChannel>>
    /\ UNCHANGED <<matchVars, toolVars>>

CallbackAppend(n) == CallbackAppendWithin(n, MaxCallbacks)

\* audioCallback, lines 470-474: with more than 10 seconds in the buffer,
\* removeCount := len - maxSamples; copy(mr.audioBuffer, mr.audioBuffer[removeCount:]).
CallbackCopy ==
    /\ cbPc = "appended"
    /\ TotalLen(audioBuffer) > maxSamples
    /\ audioBuffer' = CopyDown(audioBuffer, TotalLen(audioBuffer) - maxSamples)
    /\ cbPc' = "copied"
    /\ UNCHANGED <<loopPc, loopEvent, loopErr, isRecording, streamState, captured,
                   callbacks, jobs, matchFoundChan, consumedMatches,
                   obtained, dropped, jobFailed, segRunning, segSending, resultChannel>>
    /\ UNCHANGED <<matchVars, toolVars>>

\* audioCallback, lines 475-494: mr.audioBuffer = mr.audioBuffer[:maxSamples]
\* after the copy, then hand the last 5 seconds to a new processAudioSegment
\* goroutine when there are that many.
CallbackFinish ==
    /\ \/ cbPc = "copied"
       \/ cbPc = "appended" /\ ~(TotalLen(audioBuffer) > maxSamples)
    /\ cbPc' = "idle"
    /\ audioBuffer' = IF cbPc = "copied" THEN TakeFirst(audioBuffer, maxSamples)
                                         ELSE audioBuffer
    /\ segRunning' = IF TotalLen(audioBuffer') >= requiredSamples
                       THEN segRunning + 1 ELSE segRunning
    /\ UNCHANGED <<loopPc, loopEvent, loopErr, isRecording, streamState, captured,
                   callbacks, jobs, matchFoundChan, consumedMatches,
                   obtained, dropped, jobFailed, segSending, resultChannel>>
    /\ UNCHANGED <<matchVars, toolVars>>

\* processAudioSegment, lines 497-529: the goroutine ends without a word
\* (too few peaks or fingerprints), or goes on to send a result (a panic, a
\* spectrogram error, or the end of the function).
SegCompute(sends) ==
    /\ segRunning > 0
    /\ segRunning' = segRunning - 1
    /\ segSending' = IF sends THEN segSending + 1 ELSE segSending
    /\ UNCHANGED <<loopPc, loopEvent, loopErr, isRecording, streamState, audioBuffer,
                   captured, callbacks, cbPc, jobs, matchFoundChan,
                   consumedMatches, obtained, dropped, jobFailed, resultChannel>>
    /\ UNCHANGED <<matchVars, toolVars>>

\* mr.resultChannel <- RecognitionResult{...}: blocks while the channel is full.
SegSend ==
    /\ segSending > 0
    /\ resultChannel < resultChannelCap
    /\ segSending' = segSending - 1
    /\ resultChannel' = resultChannel + 1
    /\ UNCHANGED <<loopPc, loopEvent, loopErr, isRecording, streamState, audioBuffer,
                   captured, callbacks, cbPc, jobs, matchFoundChan,
                   consumedMatches, obtained, dropped, jobFailed, segRunning>>
    /\ UNCHANGED <<matchVars, toolVars>>

(***************************************************************************)
(* Part II: RecognizeFromMicrophone and its recognition goroutines         *)
(***************************************************************************)
\* What a recognition goroutine can get back from findMatches(map, true): a
\* list sorted by descending score, every score above 0.05.
MicMatch(song, score) == [SongID |-> song, Score |-> score, Offset |-> 0]
MicMatchLists ==
    { << >>,
      << MicMatch(1, <<3, 10>>), MicMatch(2, <<2, 10>>) >>,
      << MicMatch(1, <<32, 100>>) >>,
      << MicMatch(2, <<1, 1>>), MicMatch(1, <<32, 100>>) >> }

\* The ways a goroutine ends before it has a list of matches: a recovered
\* panic, SamplesToSpectrogram failing, fewer than 20 peaks, fewer than 50
\* fingerprints, findMatches failing.
JobFailures == {"panic", "spectrogramErr", "fewPeaks", "fewFingerprints", "storeErr"}

\* if match.Score > 0.3
isHighConfidenceWeak(m) == ScoreGT(m.Score, <<1, 10>>)
isHighConfidence(m) == ScoreGT(m.Score, <<3, 10>>)

\* Lines 627-646: the first match of the list that is sent, if any.
HasHigh(ms) == \E k \in 1..Len(ms) : isHighConfidence(ms[k])
FirstHigh(ms) ==
    ms[CHOOSE k \in 1..Len(ms) :
          /\ isHighConfidence(ms[k])
          /\ \A l \in 1..(k - 1) : ~isHighConfidence(ms[l])]

\* select { case matchFoundChan <- match: default: }
matchChanSendAlways(ch, m) == Append(ch, m)
matchChanSend(ch, m) == IF Len(ch) < matchFoundChanCap THEN Append(ch, m) ELSE ch

NoMatch == [SongID |-> 0, Score |-> <<0, 1>>, Offset |-> 0]
\* A recognition goroutine: the snapshot it was started on, its position and
\* the match it is about to send.  The snapshot is read by the pipeline only,
\* so a goroutine that is past the pipeline is recorded without it.
Job(snap, pc, m) == [snap |-> snap, pc |-> pc, match |-> m]
RemoveJob(j) == jobs (-) SetToBag({j})

\* recorder.StopRecording() as called by the loop or by the deferred Cleanup.
\* The send on mr.stopChannel (line 552) is on an unbuffered channel that
\* nothing in the program receives from, so a recording recorder parks its
\* caller there; lines 553-569 are never reached.  A recorder that is not
\* recording returns an error, which both callers ignore.
AfterStopRecording == IF isRecording THEN "stopSend" ELSE "returned"

\* Lines 483-514: create the recorder and start recording.  A failure returns
\* the error through the deferred Cleanup, which calls StopRecording when
\* isRecording is set (StartRecording sets it before stream.Start()).
StartOutcomes == {"initErr", "deviceErr", "openErr", "startErr", "ok"}

LoopStart(outcome) ==
    /\ loopPc = "idle"
    /\ isRecording' = (outcome \in {"startErr", "ok"})
    /\ streamState' = CASE outcome = "ok" -> "started"
                        [] outcome = "startErr" -> "open"
                        [] OTHER -> "none"
    /\ loopErr' = (outcome # "ok")
    /\ loopPc' = CASE outcome = "ok" -> "select"
                   [] outcome = "startErr" -> "stopSend"
                   [] OTHER -> "returned"
    /\ UNCHANGED <<loopEvent, audioBuffer, captured, callbacks, cbPc, jobs, matchFoundChan, consumedMatches, obtained, dropped, jobFailed,
                   segRunning, segSending, resultChannel>>
    /\ UNCHANGED <<matchVars, toolVars>>

\* case <-signalChan / case <-timeout.C: log, recorder.StopRecording(), return nil
LoopLeave(event) ==
    /\ loopPc = "select"
    /\ loopEvent' = event
    /\ loopPc' = AfterStopRecording
    /\ UNCHANGED <<loopErr, isRecording, streamState, audioBuffer, captured, callbacks,
                   cbPc, jobs, matchFoundChan, consumedMatches, obtained,
                   dropped, jobFailed, segRunning, segSending, resultChannel>>
    /\ UNCHANGED <<matchVars, toolVars>>

LoopInterrupt == LoopLeave("interrupt")

LoopTimeout == LoopLeave("timeout")

\* case match := <-matchFoundChan: log, recorder.StopRecording(), return nil
LoopMatch ==
    /\ loopPc = "select"
    /\ matchFoundChan # << >>
    /\ consumedMatches' = Append(consumedMatches, Head(matchFoundChan))
    /\ matchFoundChan' = Tail(matchFoundChan)
    /\ loopEvent' = "match"
    /\ loopPc' = AfterStopRecording
    /\ UNCHANGED <<loopErr, isRecording, streamState, audioBuffer, captured, callbacks,
                   cbPc, jobs, obtained, dropped, jobFailed, segRunning, segSending,
                   resultChannel>>
    /\ UNCHANGED <<matchVars, toolVars>>

\* case <-recognitionTicker.C: snapshot the buffer and, with at least 3
\* seconds in it, start a recognition goroutine.
LoopTick ==
    /\ loopPc = "select"
    /\ LET snapshot == GetAudioBuffer(audioBuffer)
       IN  IF TotalLen(snapshot) >= minSamples
             THEN /\ BagCardinality(jobs) < MaxJobs
                  /\ jobs' = jobs (+) SetToBag({Job(snapshot, "run", NoMatch)})
             ELSE UNCHANGED jobs
    /\ UNCHANGED <<loopPc, loopEvent, loopErr, isRecording, streamState, audioBuffer,
                   captured, callbacks, cbPc, matchFoundChan, consumedMatches, obtained,
                   dropped, jobFailed, segRunning, segSending, resultChannel>>
    /\ UNCHANGED <<matchVars, toolVars>>

\* case result := <-recorder.GetResultChannel(): log an error, go on
LoopResult ==
    /\ loopPc = "select"
    /\ resultChannel > 0
    /\ resultChannel' = resultChannel - 1
    /\ UNCHANGED <<loopPc, loopEvent, loopErr, isRecording, streamState, audioBuffer,
                   captured, callbacks, cbPc, jobs, matchFoundChan,
                   consumedMatches, obtained, dropped, jobFailed, segRunning, segSending>>
    /\ UNCHANGED <<matchVars, toolVars>>

\* processRealtimeAudioWithMatch up to its send (lines 553-631): a buffer
\* shorter than 5 seconds, a failure or a list without a score above 0.3 ends
\* the goroutine; otherwise it goes on to send the first such match.
JobComputeFailureEndsLoop(j, outcome) ==
    /\ j \in BagToSet(jobs)
    /\ j.pc = "run"
    /\ jobFailed' = (jobFailed \/ (TotalLen(j.snap) >= windowSamples /\ outcome \in JobFailures))
    /\ IF TotalLen(j.snap) < windowSamples \/ outcome \in JobFailures
         THEN /\ jobs' = RemoveJob(j)
              /\ UNCHANGED obtained
         ELSE /\ obtained' = obtained \cup { outcome[k] : k \in 1..Len(outcome) }
              /\ jobs' = IF HasHigh(outcome)
                           THEN RemoveJob(j) (+) SetToBag({Job(<< >>, "send", FirstHigh(outcome))})
                           ELSE RemoveJob(j)
    /\ loopPc' = IF TotalLen(j.snap) >= windowSamples /\ outcome \in JobFailures
                  THEN "returned" ELSE loopPc
    /\ UNCHANGED <<loopEvent, loopErr, isRecording, streamState, audioBuffer,
                   captured, callbacks, cbPc, matchFoundChan,
                   consumedMatches, dropped, segRunning, segSending, resultChannel>>
    /\ UNCHANGED <<matchVars, toolVars>>

JobCompute(j, outcome) ==
    /\ j \in BagToSet(jobs)
    /\ j.pc = "run"
    /\ jobFailed' = (jobFailed \/ (TotalLen(j.snap) >= windowSamples /\ outcome \in JobFailures))
    /\ IF TotalLen(j.snap) < windowSamples \/ outcome \in JobFailures
         THEN /\ jobs' = RemoveJob(j)
              /\ UNCHANGED obtained
         ELSE /\ obtained' = obtained \cup { outcome[k] : k \in 1..Len(outcome) }
              /\ jobs' = IF HasHigh(outcome)
                           THEN RemoveJob(j) (+) SetToBag({Job(<< >>, "send", FirstHigh(outcome))})
                           ELSE RemoveJob(j)
    /\ UNCHANGED <<loopPc, loopEvent, loopErr, isRecording, streamState, audioBuffer,
                   captured, callbacks, cbPc, matchFoundChan,
                   consumedMatches, dropped, segRunning, segSending, resultChannel>>
    /\ UNCHANGED <<matchVars, toolVars>>

\* Lines 632-638: the non-blocking send, then return.
JobSend(j) ==
    /\ j \in BagToSet(jobs)
    /\ j.pc = "send"
    /\ matchFoundChan' = matchChanSend(matchFoundChan, j.match)
    /\ dropped' = (dropped \/ matchFoundChan' = matchFoundChan)
    /\ jobs' = RemoveJob(j)
    /\ UNCHANGED <<loopPc, loopEvent, loopErr, isRecording, streamState, audioBuffer,
                   captured, callbacks, cbPc, consumedMatches, obtained,
                   jobFailed, segRunning, segSending, resultChannel>>
    /\ UNCHANGED <<matchVars, toolVars>>

\* Part I at rest.
MatchIdle ==
    /\ numHashes = 0
    /\ iterStart = 0
    /\ isFromMicrophone = TRUE
    /\ dbShape = [s \in SongIDs |-> 1]
    /\ failBatch = 0
    /\ songFail = 0
    /\ fmPc = "done"
    /\ i = 0
    /\ allDbMatches = EmptyBag
    /\ queryLog = << >>
    /\ fmResult = NoMatches

MicInit == MicIdle /\ MatchIdle /\ ToolsIdle

LoopNext ==
    \/ \E outcome \in StartOutcomes : LoopStart(outcome)
    \/ LoopInterrupt
    \/ LoopTimeout
    \/ LoopMatch
    \/ LoopTick
    \/ LoopResult

JobNext ==
    \/ \E j \in BagToSet(jobs) : \E outcome \in JobFailures \cup MicMatchLists :
          JobCompute(j, outcome)
    \/ \E j \in BagToSet(jobs) : JobSend(j)

RecorderNext ==
    \/ \E n \in MicChunks : CallbackAppend(n)
    \/ CallbackCopy
    \/ CallbackFinish
    \/ \E sends \in BOOLEAN : SegCompute(sends)
    \/ SegSend

MicNext == LoopNext \/ JobNext \/ RecorderNext

SpecMic == MicInit /\ [][MicNext]_vars

\* The scheduler runs every goroutine that can take a step.
SpecMicFair == SpecMic /\ WF_vars(LoopNext) /\ WF_vars(JobNext) /\ WF_vars(RecorderNext)

\* The recorder's own goroutines next to the loop: the loop starts the
\* recording, empties resultChannel while it is in its select and leaves on
\* the timeout or an interrupt; every callback is run on 4 seconds of input.
SegNext ==
    \/ \E outcome \in StartOutcomes : LoopStart(outcome)
    \/ LoopInterrupt
    \/ LoopTimeout
    \/ LoopResult
    \/ CallbackAppendWithin(4 * SAMPLE_RATE, MaxSegCallbacks)
    \/ CallbackCopy
    \/ CallbackFinish
    \/ \E sends \in BOOLEAN : SegCompute(sends)
    \/ SegSend

SpecSeg == MicInit /\ [][SegNext]_vars

\* The scheduler runs every goroutine that can take a step; the timeout of
\* the loop fires.
SpecSegFair ==
    /\ SpecSeg
    /\ WF_vars(LoopTimeout)
    /\ WF_vars(LoopResult)
    /\ WF_vars(CallbackCopy \/ CallbackFinish)
    /\ WF_vars(\E sends \in BOOLEAN : SegCompute(sends))
    /\ WF_vars(SegSend)

(***************************************************************************)
(* Part III: PickPeaks                                                     *)
(*                                                                         *)
(* Magnitudes are float64 in the source; here a cell is a pair <<re, im>>  *)
(* of integers in thousandths and the cells used have integer magnitudes.  *)
(* Frames and bins are counted from 0, as in the source.                   *)
(***************************************************************************)
WINDOW_SIZE == 4096
\* PEAK_THRESHOLD = 0.02, in thousandths
PEAK_THRESHOLD == 20

\* hopSize := WINDOW_SIZE / 4
hopSize == WINDOW_SIZE \div 4

\* cmplx.Abs: the cells used have a whole number as magnitude
Abs(c) == CHOOSE r \in 0..(c[1] * c[1] + c[2] * c[2]) : r * r = c[1] * c[1] + c[2] * c[2]

\* getMagnitudes: the magnitude of every cell (a cell not listed is 0, and so
\* is its magnitude).
getMagnitudes(cells) == [p \in DOMAIN cells |-> Abs(cells[p])]
MagAt(m, t, f) == IF <<t, f>> \in DOMAIN m THEN m[<<t, f>>] ELSE 0

\* int(hz / binSize), binSize := float64(nyquist) / float64(windowSize/2).
\* The division by a power of two is exact and hz * (windowSize/2) / nyquist
\* is either a whole number or at least 1/nyquist away from one, so the
\* float64 quotient truncates to the same integer as the exact one.
BinOfHz(hz, sr, windowSize) == (hz * (windowSize \div 2)) \div (sr \div 2)

\* if bands[i].End > maxBin ...; if bands[i].Start > maxBin ...
ClampBin(b, maxBin) == IF b > maxBin THEN maxBin ELSE b

\* The band edges in Hz, lines 93-98.
BandEdgesHz == << <<40, 80>>, <<80, 120>>, <<120, 180>>, <<180, 300>>,
                  <<300, 2000>>, <<2000, 5000>> >>

getFrequencyBandsDescending(sr, windowSize) ==
    [k \in 1..Len(BandEdgesHz) |->
        [Start |-> ClampBin(BinOfHz(BandEdgesHz[7 - k][1], sr, windowSize), windowSize \div 2 - 1),
         End   |-> ClampBin(BinOfHz(BandEdgesHz[7 - k][2], sr, windowSize), windowSize \div 2 - 1)]]
getFrequencyBands(sr, windowSize) ==
    [k \in 1..Len(BandEdgesHz) |->
        [Start |-> ClampBin(BinOfHz(BandEdgesHz[k][1], sr, windowSize), windowSize \div 2 - 1),
         End   |-> ClampBin(BinOfHz(BandEdgesHz[k][2], sr, windowSize), windowSize \div 2 - 1)]]

\* isLocalPeak(magnitudes, t, f): false as soon as an in-range neighbour is
\* at least as large.  nT is len(magnitudes), nF is len(magnitudes[0]).
isLocalPeakOrEqual(m, nT, nF, t, f) ==
    \A dt \in {-1, 0, 1} : \A df \in {-1, 0, 1} :
        \/ dt = 0 /\ df = 0
        \/ ~(t + dt >= 0 /\ t + dt < nT /\ f + df >= 0 /\ f + df < nF)
        \/ ~(MagAt(m, t, f) < MagAt(m, t + dt, f + df))
isLocalPeak(m, nT, nF, t, f) ==
    \A dt \in {-1, 0, 1} : \A df \in {-1, 0, 1} :
        \/ dt = 0 /\ df = 0
        \/ ~(t + dt >= 0 /\ t + dt < nT /\ f + df >= 0 /\ f + df < nF)
        \/ ~(MagAt(m, t, f) <= MagAt(m, t + dt, f + df))

\* One turn of `for f := band.Start; f <= band.End; f++` on the running
\* <<maxMag, maxBin>>.
ScanStepKeepsLast(m, nT, nF, t, st, f) ==
    IF MagAt(m, t, f) > 0 /\ MagAt(m, t, f) >= st[1] /\ isLocalPeak(m, nT, nF, t, f)
      THEN <<MagAt(m, t, f), f>>
      ELSE st
ScanStep(m, nT, nF, t, st, f) ==
    IF MagAt(m, t, f) > st[1] /\ isLocalPeak(m, nT, nF, t, f)
      THEN <<MagAt(m, t, f), f>>
      ELSE st

\* The turns lo..hi of that loop, in ascending order of f, from maxMag = 0
\* and maxBin = -1 or from what earlier turns left (the range is halved, and
\* the first half evaluated before the second, only to keep the evaluation
\* shallow; maxBin is -1 only while maxMag is 0).
RECURSIVE ScanBand(_, _, _, _, _, _, _)
ScanBand(m, nT, nF, t, lo, hi, st) ==
    IF lo > hi THEN st
    ELSE IF lo = hi THEN ScanStep(m, nT, nF, t, st, lo)
    ELSE LET mid == (lo + hi) \div 2
             first == ScanBand(m, nT, nF, t, lo, mid, st)
         IN  IF first[2] = -1
               THEN ScanBand(m, nT, nF, t, mid + 1, hi, <<0, -1>>)
               ELSE ScanBand(m, nT, nF, t, mid + 1, hi, first)

\* Peak{Time, TimeMS, FreqBin, Magnitude}; TimeMS = t * hopSize / sampleRate
\* * 1000 is kept as the fraction <<t * hopSize * 1000, sampleRate>>.
MakePeak(t, sr, bin, mag) ==
    [Time |-> t, TimeMS |-> <<t * hopSize * 1000, sr>>, FreqBin |-> bin, Magnitude |-> mag]

\* Lines 141-166 for one band: nothing for a band that does not fit the
\* frame, otherwise the band's maximum when it is above the threshold.
BandPeaks(m, nT, nF, t, sr, band) ==
    IF band.Start >= nF \/ band.End >= nF THEN << >>
    ELSE LET st == ScanBand(m, nT, nF, t, band.Start, band.End, <<0, -1>>)
         IN  IF st[2] # -1 /\ st[1] > PEAK_THRESHOLD
               THEN << MakePeak(t, sr, st[2], st[1]) >>
               ELSE << >>

\* Lines 137-167 for one frame: the bands in the order of the list; each
\* peak comes with the number of its band.
RECURSIVE FramePeaksFrom(_, _, _, _, _, _, _)
FramePeaksFrom(m, nT, nF, t, sr, bands, k) ==
    IF k > Len(bands) THEN << >>
    ELSE LET mine == BandPeaks(m, nT, nF, t, sr, bands[k])
         IN  [c \in 1..Len(mine) |-> [band |-> k, peak |-> mine[c]]]
                \o FramePeaksFrom(m, nT, nF, t, sr, bands, k + 1)

FramePeaks(t) ==
    FramePeaksFrom(getMagnitudes(gridCells), gridT, gridF, t, sampleRate,
                   getFrequencyBands(sampleRate, WINDOW_SIZE), 1)

\* Lines 125-134: an empty spectrogram returns an empty list at once.
PickPeaksStart ==
    /\ ppPc = "start"
    /\ ppPc' = IF gridT = 0 \/ gridF = 0 THEN "done" ELSE "frames"
    /\ ppT' = 0
    /\ peaks' = << >>
    /\ peakBands' = << >>
    /\ UNCHANGED <<sampleRate, gridT, gridF, gridCells>>
    /\ UNCHANGED <<matchVars, micVars, encVars, mainVars>>

\* Lines 137-167: one turn of the frame loop.
PickPeaksFrame ==
    /\ ppPc = "frames"
    /\ ppT < gridT
    /\ LET found == FramePeaks(ppT)
       IN  /\ peaks' = peaks \o [c \in 1..Len(found) |-> found[c].peak]
           /\ peakBands' = peakBands \o [c \in 1..Len(found) |-> found[c].band]
    /\ ppT' = ppT + 1
    /\ UNCHANGED <<sampleRate, gridT, gridF, gridCells, ppPc>>
    /\ UNCHANGED <<matchVars, micVars, encVars, mainVars>>

\* Line 169: return peaks.
PickPeaksReturn ==
    /\ ppPc = "frames"
    /\ ~(ppT < gridT)
    /\ ppPc' = "done"
    /\ UNCHANGED <<sampleRate, gridT, gridF, gridCells, ppT, peaks, peakBands>>
    /\ UNCHANGED <<matchVars, micVars, encVars, mainVars>>

\* The spectrograms and sample rates PickPeaks is run on.  A frame has
\* WINDOW_SIZE / 2 bins.  A family of grids is <<sample rate, frames, bins,
\* cells>>: every grid of that size whose cells outside the given ones are
\* zero and whose given cells take one of four values (magnitudes 0, 20, 21
\* and 40 thousandths).  The cells are where the bands of the rate meet or
\* end:
\*   44100 Hz   bands 3-7, 7-11, 11-16, 16-27, 27-185, 185-464
\*   384000 Hz  bands 0-0, 0-1, 1-1, 1-3, 3-21, 21-53
\*   3000 Hz    bands 54-109, 109-163, 163-245, 245-409, 409-2047, 2047-2047
frameBins == WINDOW_SIZE \div 2
GridFamilies ==
    { <<44100, 0, 0, {}>>,
      <<44100, 1, 0, {}>>,
      <<44100, 2, frameBins, { <<0, 7>>, <<0, 8>>, <<0, 10>>, <<1, 8>>, <<1, 20>> }>>,
      <<44100, 1, frameBins, { <<0, 185>>, <<0, 186>>, <<0, 464>>, <<0, 465>> }>>,
      <<384000, 3, frameBins, { <<0, 0>>, <<0, 2>>, <<1, 1>>, <<2, 1>>, <<2, 2>> }>>,
      <<3000, 2, frameBins, { <<0, 409>>, <<0, 2046>>, <<0, 2047>>, <<1, 2047>> }>> }
CellValues == { <<0, 0>>, <<12, 16>>, <<-21, 0>>, <<24, -32>> }

\* The zero cells are left out of gridCells.
NonZero(g) == [p \in { q \in DOMAIN g : g[q] # <<0, 0>> } |-> g[p]]

PeaksInit ==
    /\ \E fam \in GridFamilies :
          /\ sampleRate = fam[1]
          /\ gridT = fam[2]
          /\ gridF = fam[3]
          /\ gridCells \in { NonZero(g) : g \in [fam[4] -> CellValues] }
    /\ ppPc = "start"
    /\ ppT = 0
    /\ peaks = << >>
    /\ peakBands = << >>
    /\ MatchIdle
    /\ MicIdle
    /\ EncIdle
    /\ MainIdle

PeaksNext == PickPeaksStart \/ PickPeaksFrame \/ PickPeaksReturn

SpecPeaks == PeaksInit /\ [][PeaksNext]_vars

(***************************************************************************)
(* Part IV: the fingerprint encoders                                       *)
(*                                                                         *)
(* Peak.TimeMS is float64 in the source; here it is the exact fraction     *)
(* <<numerator, denominator>> with a positive denominator.  The times the  *)
(* encoders are run on are multiples of half a millisecond, which float64  *)
(* holds and subtracts exactly.  Peak indices count from 0, as in the      *)
(* source.                                                                 *)
(***************************************************************************)
MIN_HASH_TIME_DELTA == 0
MAX_HASH_TIME_DELTA == 2000
FAN_VALUE == 15
\* skipFactor := 4
skipFactor == 4
\* if processed > 10000
maxToleranceCount == 10000
\* anchorBin > 2048 || targetBin > 2048
maxToleranceBin == 2048

\* a - b on fractions
FracSub(a, b) == <<a[1] * b[2] - b[1] * a[2], a[2] * b[2]>>

\* int(x) of a float64: the fraction part is cut off, towards zero
Trunc(a) == IF a[1] >= 0 THEN a[1] \div a[2] ELSE -((-a[1]) \div a[2])

\* peaks[i]
PeakAt(pk, idx) == pk[idx + 1]

\* timeDelta := target.TimeMS - anchor.TimeMS
timeDelta(pk, a, t) == FracSub(PeakAt(pk, t).TimeMS, PeakAt(pk, a).TimeMS)

\* timeDelta <= float64(MIN_HASH_TIME_DELTA) || timeDelta > float64(MAX_HASH_TIME_DELTA)
DeltaRejectedAboveOnly(td) == td[1] > MAX_HASH_TIME_DELTA * td[2]
DeltaRejected(td) ==
    \/ td[1] <= MIN_HASH_TIME_DELTA * td[2]
    \/ td[1] > MAX_HASH_TIME_DELTA * td[2]

\* fmt.Sprintf("%d|%d|%d", anchorBin, targetBin, int(timeDelta))
hashInputTargetFirst(anchorBin, targetBin, dt) ==
    ToString(targetBin) \o "|" \o ToString(anchorBin) \o "|" \o ToString(dt)
hashInput(anchorBin, targetBin, dt) ==
    ToString(anchorBin) \o "|" \o ToString(targetBin) \o "|" \o ToString(dt)

\* hex.EncodeToString(sha1.Sum(input)): the digest is not computed; the hash
\* of a string is kept as the string itself under the tag "sha1".
sha1Hex(input) == <<"sha1", input>>

\* Fingerprint{Hash: hashStr, Offset: int(anchor.TimeMS)}
MakeFingerprint(pk, a, anchorBin, targetBin, td) ==
    [Hash |-> sha1Hex(hashInput(anchorBin, targetBin, Trunc(td))),
     Offset |-> Trunc(PeakAt(pk, a).TimeMS)]

NoTokens == [toks |-> << >>, pairs |-> << >>]

\* generateFingerprintsWithTolerance, lines 335-359: the inner loop of anchor
\* a from target t on; the tokens and, for each, its <<a, t>>.
RECURSIVE BaseTargetsDescending(_, _, _)
BaseTargetsDescending(pk, a, t) ==
    IF ~(t < a + FAN_VALUE /\ t < Len(pk)) THEN NoTokens
    ELSE LET rest == BaseTargetsDescending(pk, a, t + 1)
             td == timeDelta(pk, a, t)
         IN  IF DeltaRejected(td) THEN rest
             ELSE [toks |-> Append(rest.toks,
                          MakeFingerprint(pk, a, PeakAt(pk, a).FreqBin, PeakAt(pk, t).FreqBin, td)),
                   pairs |-> Append(rest.pairs, <<a, t>>)]
RECURSIVE BaseTargets(_, _, _)
BaseTargets(pk, a, t) ==
    IF ~(t < a + FAN_VALUE /\ t < Len(pk)) THEN NoTokens
    ELSE LET rest == BaseTargets(pk, a, t + 1)
             td == timeDelta(pk, a, t)
         IN  IF DeltaRejected(td) THEN rest
             ELSE [toks |-> << MakeFingerprint(pk, a, PeakAt(pk, a).FreqBin,
                                                PeakAt(pk, t).FreqBin, td) >> \o rest.toks,
                   pairs |-> << <<a, t>> >> \o rest.pairs]

\* Lines 285-290.
tolerances == << <<-1, 0>>, <<1, 0>>, <<0, -1>>, <<0, 1>> >>

\* generateFingerprintsWithMinimalTolerance, lines 292-315, for one pair: the
\* tokens of the tolerances whose bins are in range, in the order of the list.
InToleranceRangeExclusive(anchorBin, targetBin) ==
    ~(\/ anchorBin < 0 \/ targetBin < 0
      \/ anchorBin >= maxToleranceBin \/ targetBin >= maxToleranceBin)
InToleranceRange(anchorBin, targetBin) ==
    ~(\/ anchorBin < 0 \/ targetBin < 0
      \/ anchorBin > maxToleranceBin \/ targetBin > maxToleranceBin)
ToleranceTokens(pk, a, t) ==
    LET kept == SelectSeq(tolerances,
                    LAMBDA tol : InToleranceRange(PeakAt(pk, a).FreqBin + tol[1],
                                                  PeakAt(pk, t).FreqBin + tol[2]))
    IN  [c \in 1..Len(kept) |->
            MakeFingerprint(pk, a, PeakAt(pk, a).FreqBin + kept[c][1],
                            PeakAt(pk, t).FreqBin + kept[c][2], timeDelta(pk, a, t))]

\* Lines 316-320: processed++ after each append, and the function returns as
\* soon as processed > 10000.  Of the tokens toks appended after n others,
\* those that are appended before that happens.
AppendedBeforeReturn(toks, n) ==
    IF n + Len(toks) > maxToleranceCount
      THEN SubSeq(toks, 1, maxToleranceCount + 1 - n)
      ELSE toks

\* Lines 275-322: the inner loops of anchor a from target t on, with n tokens
\* counted so far; `returned` tells that the function returned from inside
\* the loops.
RECURSIVE ToleranceTargets(_, _, _, _)
ToleranceTargets(pk, a, t, n) ==
    IF ~(t < a + FAN_VALUE /\ t < Len(pk))
      THEN [toks |-> << >>, pairs |-> << >>, processed |-> n, returned |-> FALSE]
    ELSE IF DeltaRejected(timeDelta(pk, a, t))
      THEN ToleranceTargets(pk, a, t + 1, n)
    ELSE LET mine == AppendedBeforeReturn(ToleranceTokens(pk, a, t), n)
             minePairs == [c \in 1..Len(mine) |-> <<a, t>>]
         IN  IF n + Len(mine) > maxToleranceCount
               THEN [toks |-> mine, pairs |-> minePairs,
                     processed |-> n + Len(mine), returned |-> TRUE]
               ELSE LET rest == ToleranceTargets(pk, a, t + 1, n + Len(mine))
                    IN  [toks |-> mine \o rest.toks,
                         pairs |-> minePairs \o rest.pairs,
                         processed |-> rest.processed,
                         returned |-> rest.returned]

\* One turn of the anchor loop at anchor a, of the encoder `mode`, on
\* st = [toks, pairs, processed, returned]; no turn is taken once the
\* function has returned.
AnchorTurn(pk, mode, a, st) ==
    IF st.returned THEN st
    ELSE IF mode = "base"
      THEN LET r == BaseTargets(pk, a, a + 1)
           IN  [toks |-> st.toks \o r.toks, pairs |-> st.pairs \o r.pairs,
                processed |-> st.processed, returned |-> FALSE]
      ELSE LET r == ToleranceTargets(pk, a, a + 1, st.processed)
           IN  [toks |-> st.toks \o r.toks, pairs |-> st.pairs \o r.pairs,
                processed |-> r.processed, returned |-> r.returned]

\* for i := 0; i < len(peaks); i += step: the turns lo..hi of the loop, in
\* order; turn m has anchor m * step.
RECURSIVE AnchorLoop(_, _, _, _, _, _)
AnchorLoop(pk, mode, step, lo, hi, st) ==
    IF lo > hi THEN st
    ELSE IF lo = hi THEN AnchorTurn(pk, mode, lo * step, st)
    ELSE LET mid == (lo + hi) \div 2
             first == AnchorLoop(pk, mode, step, lo, mid, st)
         IN  IF first.returned THEN first
             ELSE AnchorLoop(pk, mode, step, mid + 1, hi, first)

\* The call: var fingerprints []Fingerprint; processed := 0.
EncodeStart ==
    /\ encPc = "start"
    /\ encPc' = "loop"
    /\ fingerprints' = << >>
    /\ encPairs' = << >>
    /\ processed' = 0
    /\ UNCHANGED <<encPeaks, encMode, encRun, encPrev>>
    /\ UNCHANGED <<matchVars, micVars, peakVars, mainVars>>

\* The anchor loop of the encoder that is running, to its return: i += 1 in
\* GenerateFingerprints, i += skipFactor in the tolerance encoder.
EncodeLoop ==
    /\ encPc = "loop"
    /\ LET step == IF encMode = "base" THEN 1 ELSE skipFactor
           r == AnchorLoop(encPeaks, encMode, step, 0, (Len(encPeaks) - 1) \div step,
                           [toks |-> fingerprints, pairs |-> encPairs,
                            processed |-> processed, returned |-> FALSE])
       IN  /\ fingerprints' = r.toks
           /\ encPairs' = r.pairs
           /\ processed' = r.processed
    /\ encPc' = "done"
    /\ UNCHANGED <<encPeaks, encMode, encRun, encPrev>>
    /\ UNCHANGED <<matchVars, micVars, peakVars, mainVars>>

\* GenerateFingerprints is called a second time on the same peaks.
EncodeAgain ==
    /\ encPc = "done"
    /\ encMode = "base"
    /\ encRun = 1
    /\ encRun' = 2
    /\ encPrev' = fingerprints
    /\ encPc' = "start"
    /\ UNCHANGED <<encPeaks, encMode, fingerprints, processed, encPairs>>
    /\ UNCHANGED <<matchVars, micVars, peakVars, mainVars>>

\* GenerateFingerprintsForMicrophone, lines 248-260: the base encoder, then
\* the tolerance encoder, then append(baseFingerprints, toleranceFingerprints...).
FreshTokens == [toks |-> << >>, pairs |-> << >>, processed |-> 0, returned |-> FALSE]
GenerateFingerprintsForMicrophone(pk) ==
    LET base == AnchorLoop(pk, "base", 1, 0, Len(pk) - 1, FreshTokens)
        tol == AnchorLoop(pk, "tolerance", skipFactor, 0,
                          (Len(pk) - 1) \div skipFactor, FreshTokens)
    IN  [base |-> base.toks,
         toks |-> base.toks \o tol.toks,
         pairs |-> base.pairs \o tol.pairs,
         processed |-> tol.processed]

\* processRealtimeAudioWithMatch, README.md line 598: if len(peaks) < 20
TooFewPeaksAsInSegments(pk) == Len(pk) < 10
TooFewPeaks(pk) == Len(pk) < 20

\* README.md line 606: if len(fingerprints) < 50
TooFewFingerprints(fps) == Len(fps) < 50

\* A recognition goroutine from its peaks on (README.md lines 596-618).
\* Lines 598-601: too few peaks end it.
JobGatePeaks ==
    /\ encPc = "gate"
    /\ encPc' = IF TooFewPeaks(encPeaks) THEN "discarded" ELSE "micEncode"
    /\ UNCHANGED <<encPeaks, encMode, fingerprints, processed, encPairs, encRun, encPrev>>
    /\ UNCHANGED <<matchVars, micVars, peakVars, mainVars>>

\* Line 604: fingerprints := fingerprint.GenerateFingerprintsForMicrophone(peaks);
\* encPrev keeps what the base encoder returned inside the call.
JobEncode ==
    /\ encPc = "micEncode"
    /\ LET r == GenerateFingerprintsForMicrophone(encPeaks)
       IN  /\ fingerprints' = r.toks
           /\ encPairs' = r.pairs
           /\ processed' = r.processed
           /\ encPrev' = r.base
    /\ encPc' = "gateTokens"
    /\ UNCHANGED <<encPeaks, encMode, encRun>>
    /\ UNCHANGED <<matchVars, micVars, peakVars, mainVars>>

\* Lines 606-618: too few fingerprints end the goroutine, otherwise the map
\* is built and findMatches(map, true) queries the store.
JobGateFingerprints ==
    /\ encPc = "gateTokens"
    /\ encPc' = IF TooFewFingerprints(fingerprints) THEN "discarded" ELSE "queried"
    /\ UNCHANGED <<encPeaks, encMode, fingerprints, processed, encPairs, encRun, encPrev>>
    /\ UNCHANGED <<matchVars, micVars, peakVars, mainVars>>

\* The peak lists the encoders are run on.  Of a Peak, the two fields the
\* encoders read; a time is given in half milliseconds.
EncPeak(halfMs, bin) == [TimeMS |-> <<halfMs, 2>>, FreqBin |-> bin]
\* 0 ms, 789.5 ms, 2000 ms, 2000.5 ms and -1.5 ms; bins at and off the
\* limits of the tolerance range
PeakAlphabet ==
    { EncPeak(0, 123), EncPeak(1579, 456), EncPeak(4000, 0), EncPeak(4001, 2048),
      EncPeak(-3, 7) }
ShortLists == UNION { [1..n -> PeakAlphabet] : n \in 0..MaxPeaks }
\* n peaks, one every `step` half milliseconds, over three bins
RegularList(n, step) == [k \in 1..n |-> EncPeak((k - 1) * step, 100 + ((k - 1) % 3))]
\* the same with the last peak `gap` half milliseconds after the one before
GappedList(n, step, gap) ==
    [k \in 1..n |-> IF k < n THEN RegularList(n, step)[k]
                            ELSE EncPeak((n - 2) * step + gap, 100)]
\* 17 peaks 100 ms and 150 ms apart, and 100 ms apart but for a last one
\* 2500 ms late: more peaks than one fan takes, the last targets of a fan
\* within and beyond 2000 ms
LongLists == { RegularList(17, 200), RegularList(17, 300), GappedList(17, 200, 5000) }
\* 730 peaks 1 ms apart: enough pairs for the tolerance encoder's limit
ManyPeaks == RegularList(730, 2)
\* 20 peaks 100 ms apart whose bins are the two limits of the tolerance range
EdgeList == [k \in 1..20 |-> EncPeak((k - 1) * 200, IF k % 2 = 1 THEN 0 ELSE 2048)]
\* The peaks of a recognition goroutine: 19 and 20 peaks 100 ms apart, 20
\* peaks 800 ms apart (37 base tokens, 77 with the tolerance tokens), 20
\* peaks 2000 ms apart (39 tokens in all), and the list of limit bins
MicLists ==
    { RegularList(19, 200), RegularList(20, 200), RegularList(20, 1600),
      RegularList(20, 4000), EdgeList }

EncodeInit ==
    /\ \/ encMode \in {"base", "tolerance"} /\ encPeaks \in ShortLists \cup LongLists
       \/ encMode = "tolerance" /\ encPeaks = ManyPeaks
       \/ encMode = "microphone" /\ encPeaks \in MicLists
    /\ encPc = IF encMode = "microphone" THEN "gate" ELSE "start"
    /\ fingerprints = << >>
    /\ processed = 0
    /\ encPairs = << >>
    /\ encRun = 1
    /\ encPrev = << >>
    /\ MatchIdle
    /\ MicIdle
    /\ PeaksIdle
    /\ MainIdle

EncodeNext ==
    \/ EncodeStart
    \/ EncodeLoop
    \/ EncodeAgain
    \/ JobGatePeaks
    \/ JobEncode
    \/ JobGateFingerprints

SpecEncode == EncodeInit /\ [][EncodeNext]_vars

(***************************************************************************)
(* Part V: the command line (main, src/unnamed/part_000)                   *)
(*                                                                         *)
(* main parses six flags, loads the configuration, builds the application  *)
(* and then tests the flags one after the other; the first test that       *)
(* holds runs its operation and leaves main.  What an operation does is    *)
(* the matter of the other parts: here a call is logged in mainOps and its *)
(* outcome is drawn.  os.Exit(1) gives exit code 1, a return from main 0;  *)
(* the exit code is -1 while the process runs.                             *)
(***************************************************************************)
\* the flag values: a path or none, a song id or the default -1 (and a
\* negative id given on the command line)
FilePaths == {"", "song.mp3"}
DeleteIDs == {-1, -5, 0, 3}
FlagSets ==
    [file : FilePaths, recognize : FilePaths, microphone : BOOLEAN,
     list : BOOLEAN, cleanup : BOOLEAN, delete : DeleteIDs]
\* len(songs) of a successful List
ResultCounts == {0, 2}
\* RecognizeFromMicrophone returns nil, returns an error, or does not return
MicrophoneOutcomes == {"nil", "err", "blocked"}

\* logger.Error(...); os.Exit(1)
ExitWithError ==
    /\ mainErrors' = mainErrors + 1
    /\ exitCode' = 1
    /\ mainPc' = "exited"

\* return from main
ReturnFromMain ==
    /\ exitCode' = 0
    /\ mainPc' = "exited"
    /\ UNCHANGED mainErrors

\* Lines 59-65: config.LoadConfig.
MainLoadConfig(ok) ==
    /\ mainPc = "config"
    /\ IF ok THEN mainPc' = "app" /\ UNCHANGED <<mainErrors, exitCode>>
             ELSE ExitWithError
    /\ UNCHANGED <<mainFlags, mainOps, mainSongs>>
    /\ UNCHANGED <<matchVars, micVars, peakVars, encVars>>

\* Lines 68-72: eureka.NewEureka.
MainNewEureka(ok) ==
    /\ mainPc = "app"
    /\ IF ok THEN mainPc' = "delete" /\ UNCHANGED <<mainErrors, exitCode>>
             ELSE ExitWithError
    /\ UNCHANGED <<mainFlags, mainOps, mainSongs>>
    /\ UNCHANGED <<matchVars, micVars, peakVars, encVars>>

\* Lines 74-80: if *deleteCmd >= 0 { app.Delete; return }.
MainDeleteFallsThrough(ok) ==
    /\ mainPc = "delete"
    /\ IF mainFlags.delete >= 0
         THEN /\ mainOps' = Append(mainOps, "delete")
              /\ IF ok THEN mainPc' = "cleanup" /\ UNCHANGED <<mainErrors, exitCode>>
                       ELSE ExitWithError
         ELSE /\ mainPc' = "cleanup"
              /\ UNCHANGED <<mainOps, mainErrors, exitCode>>
    /\ UNCHANGED <<mainFlags, mainSongs>>
    /\ UNCHANGED <<matchVars, micVars, peakVars, encVars>>
MainDelete(ok) ==
    /\ mainPc = "delete"
    /\ IF mainFlags.delete >= 0
         THEN /\ mainOps' = Append(mainOps, "delete")
              /\ IF ok THEN ReturnFromMain ELSE ExitWithError
         ELSE /\ mainPc' = "cleanup"
              /\ UNCHANGED <<mainOps, mainErrors, exitCode>>
    /\ UNCHANGED <<mainFlags, mainSongs>>
    /\ UNCHANGED <<matchVars, micVars, peakVars, encVars>>

\* Lines 82-88: if *cleanupCmd { app.Cleanup; return }.
MainCleanup(ok) ==
    /\ mainPc = "cleanup"
    /\ IF mainFlags.cleanup
         THEN /\ mainOps' = Append(mainOps, "cleanup")
              /\ IF ok THEN ReturnFromMain ELSE ExitWithError
         ELSE /\ mainPc' = "list"
              /\ UNCHANGED <<mainOps, mainErrors, exitCode>>
    /\ UNCHANGED <<mainFlags, mainSongs>>
    /\ UNCHANGED <<matchVars, micVars, peakVars, encVars>>

\* Lines 90-106: if *listCmd { app.List; print the songs or "No songs
\* found"; return }.
MainList(ok, n) ==
    /\ mainPc = "list"
    /\ IF mainFlags.list
         THEN /\ mainOps' = Append(mainOps, "list")
              /\ IF ok THEN mainSongs' = n /\ ReturnFromMain
                       ELSE UNCHANGED mainSongs /\ ExitWithError
         ELSE /\ mainPc' = "microphone"
              /\ UNCHANGED <<mainOps, mainErrors, exitCode, mainSongs>>
    /\ UNCHANGED mainFlags
    /\ UNCHANGED <<matchVars, micVars, peakVars, encVars>>

\* Lines 108-115: if *microphoneCmd { app.RecognizeFromMicrophone; return }.
\* A call that does not return keeps main, and the process, where it is.
MainMicrophone(outcome) ==
    /\ mainPc = "microphone"
    /\ IF mainFlags.microphone
         THEN /\ mainOps' = Append(mainOps, "microphone")
              /\ CASE outcome = "nil" -> ReturnFromMain
                   [] outcome = "err" -> ExitWithError
                   [] OTHER -> mainPc' = "blocked" /\ UNCHANGED <<mainErrors, exitCode>>
         ELSE /\ mainPc' = "recognize"
              /\ UNCHANGED <<mainOps, mainErrors, exitCode>>
    /\ UNCHANGED <<mainFlags, mainSongs>>
    /\ UNCHANGED <<matchVars, micVars, peakVars, encVars>>

\* Lines 117-135: if *recognizeFile != "" { app.Recognize; print; return }.
MainRecognize(ok) ==
    /\ mainPc = "recognize"
    /\ IF mainFlags.recognize # ""
         THEN /\ mainOps' = Append(mainOps, "recognize")
              /\ IF ok THEN ReturnFromMain ELSE ExitWithError
         ELSE /\ mainPc' = "file"
              /\ UNCHANGED <<mainOps, mainErrors, exitCode>>
    /\ UNCHANGED <<mainFlags, mainSongs>>
    /\ UNCHANGED <<matchVars, micVars, peakVars, encVars>>

\* Lines 137-141: if *audioFile == "" { logger.Error; flag.Usage; os.Exit(1) }.
MainCheckFile ==
    /\ mainPc = "file"
    /\ IF mainFlags.file = ""
         THEN ExitWithError
         ELSE mainPc' = "save" /\ UNCHANGED <<mainErrors, exitCode>>
    /\ UNCHANGED <<mainFlags, mainOps, mainSongs>>
    /\ UNCHANGED <<matchVars, micVars, peakVars, encVars>>

\* Lines 143-147: app.Save(*audioFile), and the end of main.
MainSave(ok) ==
    /\ mainPc = "save"
    /\ mainOps' = Append(mainOps, "ingest")
    /\ IF ok THEN ReturnFromMain ELSE ExitWithError
    /\ UNCHANGED <<mainFlags, mainSongs>>
    /\ UNCHANGED <<matchVars, micVars, peakVars, encVars>>

MainInit ==
    /\ mainFlags \in FlagSets
    /\ mainPc = "config"
    /\ mainOps = << >>
    /\ mainErrors = 0
    /\ exitCode = -1
    /\ mainSongs = -1
    /\ MatchIdle
    /\ MicIdle
    /\ PeaksIdle
    /\ EncIdle

MainNext ==
    \/ \E ok \in BOOLEAN : MainLoadConfig(ok)
    \/ \E ok \in BOOLEAN : MainNewEureka(ok)
    \/ \E ok \in BOOLEAN : MainDelete(ok)
    \/ \E ok \in BOOLEAN : MainCleanup(ok)
    \/ \E ok \in BOOLEAN, n \in ResultCounts : MainList(ok, n)
    \/ \E outcome \in MicrophoneOutcomes : MainMicrophone(outcome)
    \/ \E ok \in BOOLEAN : MainRecognize(ok)
    \/ MainCheckFile
    \/ \E ok \in BOOLEAN : MainSave(ok)

SpecMain == MainInit /\ [][MainNext]_vars

(***************************************************************************)
(* Part I: properties of the matcher                                       *)
(***************************************************************************)
\* What the specification says of a song, read off the store and the query
\* map directly: its hits, their number, and the number of hits per delta.
Delta(r) == r.Offset - sampleOffset(r.Hash)
Hits(s) == { r \in rowsOfSong(s) : r.Hash \in 1..numHashes }
\* for one song: its id, total, the hits per delta, and peak_count
SongStat(s) ==
    LET H == Hits(s)
        counts == [d \in { Delta(r) : r \in H } |->
                      Cardinality({ r \in H : Delta(r) = d })]
    IN  [song   |-> s,
         total  |-> Cardinality(H),
         counts |-> counts,
         peak   |-> SetMax({0} \cup { counts[d] : d \in DOMAIN counts })]
Norm == IF isFromMicrophone THEN 50 ELSE 100
\* min(1.0, (peak_count * peak_count / total) / norm), for total > 0
ExpectedScore(st) ==
    IF st.peak * st.peak > st.total * Norm
      THEN <<1, 1>>
      ELSE <<st.peak * st.peak, st.total * Norm>>
\* total >= min_matches and score > score_threshold
Passes(st) ==
    /\ st.total >= (IF isFromMicrophone THEN 3 ELSE 5)
    /\ ScoreGT(ExpectedScore(st), IF isFromMicrophone THEN <<5, 100>> ELSE <<10, 100>>)
Returned == fmPc = "done" /\ ~fmResult.err
ReturnedSongs == { fmResult.matches[k].SongID : k \in 1..Len(fmResult.matches) }
\* the songs that pass and whose metadata can be fetched, with their statistics
PassingStats == { st \in { SongStat(s) : s \in SongIDs \ {songFail} } : Passes(st) }

\* C1: every call of QueryFingerprints made by findMatches receives at most
\* 1000 hashes, whatever the size of the query map and the mode.
C1_BatchAtMost1000 ==
    \A k \in 1..Len(queryLog) : queryLog[k] >= 1 /\ queryLog[k] <= 1000

\* C1 witness: a query of more than 1000 hashes has been sent in several calls.
C1_Witness ==
    /\ fmPc = "done"
    /\ numHashes > 2000
    /\ Len(queryLog) = 3

\* C2: the returned list is sorted by descending score, has at most 5 entries,
\* and a song that passes the tests (and whose metadata could be fetched) is
\* left out only when 5 songs are returned, none of them with a lower score.
C2_SortedTopFive ==
    Returned =>
      LET ms == fmResult.matches
          out == ReturnedSongs
      IN  /\ Len(ms) <= 5
          /\ \A k \in 1..(Len(ms) - 1) : ~ScoreGT(ms[k + 1].Score, ms[k].Score)
          /\ \A st \in PassingStats :
               st.song \notin out =>
                  /\ Len(ms) = 5
                  /\ LET e == ExpectedScore(st)
                     IN  \A k \in 1..5 : ~ScoreGT(e, ms[k].Score)

\* C2 witness: six songs pass, five are returned, with different scores.
C2_Witness ==
    /\ Returned
    /\ Len(fmResult.matches) = 5
    /\ ScoreGT(fmResult.matches[1].Score, fmResult.matches[5].Score)
    /\ Cardinality(PassingStats) > 5

\* C3: the score of every emitted Match is min(1, (peak_count^2 / total) / norm)
\* with norm 100 (file) or 50 (microphone), and lies in [0, 1].
C3_ScoreFormula ==
    Returned =>
      \A k \in 1..Len(fmResult.matches) :
         LET m == fmResult.matches[k]
             st == SongStat(m.SongID)
         IN  /\ st.total > 0
             /\ ScoreEQ(m.Score, ExpectedScore(st))
             /\ ~ScoreGT(<<0, 1>>, m.Score)
             /\ ~ScoreGT(m.Score, <<1, 1>>)

\* C3 witness: one returned score is capped at 1, another comes from a song
\* whose hits are spread over several deltas.
C3_Witness ==
    /\ Returned
    /\ \E k \in 1..Len(fmResult.matches) :
          LET st == SongStat(fmResult.matches[k].SongID)
          IN  st.peak * st.peak > st.total * Norm
    /\ \E k \in 1..Len(fmResult.matches) :
          LET st == SongStat(fmResult.matches[k].SongID)
          IN  /\ st.peak < st.total
              /\ ScoreGT(<<1, 1>>, fmResult.matches[k].Score)

\* exactly five hits, all with the same delta
FiveInOneBucket(st) == st.total = 5 /\ st.peak = 5

\* C4: a song is returned only if it has at least min_matches hits (5 file,
\* 3 microphone) and a score strictly above the threshold (0.1 file, 0.05
\* microphone); a song with exactly 5 hits in one bucket is never returned in
\* file mode and passes in microphone mode (it is returned unless its metadata
\* cannot be fetched or five other songs fill the list).
C4_MinMatchesAndThreshold ==
    Returned =>
      LET out == ReturnedSongs
      IN  \A s \in SongIDs :
            LET st == SongStat(s)
            IN  /\ s \in out => Passes(st)
                /\ FiveInOneBucket(st) =>
                     IF isFromMicrophone
                       THEN s \in out \/ s = songFail \/ Len(fmResult.matches) = 5
                       ELSE s \notin out

\* C4 witness: microphone mode returns a song with exactly 5 hits in one bucket.
C4_Witness ==
    /\ Returned
    /\ isFromMicrophone
    /\ \E s \in ReturnedSongs : FiveInOneBucket(SongStat(s))

\* C5: the Offset of every returned Match is a delta of that song whose number
\* of hits is the song's peak count.
C5_OffsetIsModal ==
    Returned =>
      \A k \in 1..Len(fmResult.matches) :
         LET m == fmResult.matches[k]
             st == SongStat(m.SongID)
         IN  /\ m.Offset \in DOMAIN st.counts
             /\ st.counts[m.Offset] = st.peak

\* C5 witness: a returned song has hits at a delta that is not its modal one.
C5_Witness ==
    /\ Returned
    /\ \E k \in 1..Len(fmResult.matches) :
          LET st == SongStat(fmResult.matches[k].SongID)
          IN  \E d \in DOMAIN st.counts : st.counts[d] < st.peak

(***************************************************************************)
(* Part II: properties of the microphone loop                              *)
(***************************************************************************)
\* C6: once the loop has left Recording through a terminal event (a match,
\* the timeout, an interrupt), the capture stream is eventually stopped and
\* RecognizeFromMicrophone returns.
C6_EventLeadsToReturn ==
    (loopEvent \in {"match", "timeout", "interrupt"})
        ~> (loopPc = "returned" /\ streamState = "stopped")

\* C7: the loop leaves Recording only through a received match, the timeout
\* or an interrupt, and every match it receives is one that a recognition
\* goroutine got from the microphone-mode matcher with a score above 0.3.
C7_LeavesOnlyByThreeEvents ==
    /\ (loopPc = "select") => (loopEvent = "none" /\ streamState = "started")
    /\ (streamState = "started" /\ loopPc # "select") =>
          loopEvent \in {"match", "timeout", "interrupt"}
    /\ (loopEvent = "match") <=> (consumedMatches # << >>)
    /\ \A k \in 1..Len(consumedMatches) :
          /\ consumedMatches[k] \in obtained
          /\ ScoreGT(consumedMatches[k].Score, <<3, 10>>)

\* C7 witness: the loop has left Recording on a received match.
C7_Witness ==
    /\ loopEvent = "match"
    /\ loopPc # "select"
    /\ consumedMatches # << >>

\* C8: the match channel never holds more than one match, the loop consumes
\* at most one, and a goroutine at its send always completes it at once,
\* dropping the match when the slot is taken.
C8_FirstMatchWins ==
    /\ Len(matchFoundChan) <= 1
    /\ Len(consumedMatches) <= 1
    /\ \A j \in BagToSet(jobs) : j.pc = "send" => ENABLED JobSend(j)

\* C8 witness: a goroutine found the slot taken and dropped its match, and
\* the loop consumed the match that was there first.
C8_Witness ==
    /\ dropped
    /\ Len(consumedMatches) = 1
    /\ jobs = EmptyBag

\* C9: the audio buffer never holds more than 10 seconds (441000 samples), in
\* any state, the ones a GetAudioBuffer call of the loop can read included.
C9_BufferAtMostTenSeconds == TotalLen(audioBuffer) <= 10 * 44100

\* C10: no recognition goroutine is started while another one is still
\* running, so at most one is in flight.
C10_NoOverlappingJobs == BagCardinality(jobs) <= 1

\* C11: a step in which a recognition goroutine ends on a panic, a compute
\* error or a store error takes exactly that goroutine away and leaves the
\* loop, the stream and the match channel as they were; and a loop that is
\* in Recording after such a failure can take its ticker case again.
C11_JobFailureKeepsLoop ==
    /\ [][ (\E j \in BagToSet(jobs) : \E f \in JobFailures :
               TotalLen(j.snap) >= windowSamples /\ JobCompute(j, f))
           => /\ loopPc' = loopPc
              /\ loopEvent' = loopEvent
              /\ loopErr' = loopErr
              /\ isRecording' = isRecording
              /\ streamState' = streamState
              /\ matchFoundChan' = matchFoundChan
              /\ consumedMatches' = consumedMatches
              /\ BagCardinality(jobs') = BagCardinality(jobs) - 1 ]_vars
    /\ [](  (jobFailed /\ loopPc = "select" /\ BagCardinality(jobs) < MaxJobs)
            => ENABLED LoopTick )

\* C11 witness: a goroutine has failed, the loop is still in Recording and a
\* goroutine dispatched by a tick is running.
C11_Witness ==
    /\ jobFailed
    /\ loopPc = "select"
    /\ streamState = "started"
    /\ \E j \in BagToSet(jobs) : j.pc = "run"

\* C13: when PortAudio initialisation, opening the stream, starting it or
\* stopping it fails, RecognizeFromMicrophone comes to its end and returns
\* the error.
C13_CaptureErrorIsFatal == loopErr ~> (loopPc = "returned" /\ loopErr)

\* A store call of the finished run failed: QueryFingerprints on a batch, or
\* GetSongByID on a song that passed both tests.
QueryFailed == failBatch # 0 /\ Len(queryLog) >= failBatch
LookupFailed ==
    /\ fmPc = "done"
    /\ numHashes > 0
    /\ ~QueryFailed
    /\ songFail # 0
    /\ Passes(SongStat(songFail))

\* C12: when QueryFingerprints fails on a batch or GetSongByID fails for a
\* candidate song, findMatches returns an error and no matches.
C12_StoreErrorsSurfaced ==
    (fmPc = "done" /\ (QueryFailed \/ LookupFailed))
        => (fmResult.err /\ fmResult.matches = << >>)

(***************************************************************************)
(* Part III: properties of the peak picker                                 *)
(***************************************************************************)
\* The magnitude grid as the specification reads it: |cell| at (t, f), in
\* thousandths, and the cells of the grid.
GridMag(t, f) ==
    IF <<t, f>> \in DOMAIN gridCells
      THEN LET c == gridCells[<<t, f>>]
           IN  CHOOSE r \in 0..60 : r * r = c[1] * c[1] + c[2] * c[2]
      ELSE 0
InGrid(t, f) == t \in 0..(gridT - 1) /\ f \in 0..(gridF - 1)
Neighbours(t, f) ==
    { q \in ((t - 1)..(t + 1)) \X ((f - 1)..(f + 1)) : q # <<t, f>> /\ InGrid(q[1], q[2]) }

C15_PeaksOrdered ==
    \A k \in 1..Len(peaks) : \A l \in (k + 1)..Len(peaks) :
        \/ peaks[k].Time < peaks[l].Time
        \/ peaks[k].Time = peaks[l].Time /\ peaks[k].FreqBin <= peaks[l].FreqBin

\* C15 witness: the returned list has two peaks of different bins in one
\* frame and peaks of two frames.
C15_Witness ==
    /\ ppPc = "done"
    /\ \E k, l \in 1..Len(peaks) :
          peaks[k].Time = peaks[l].Time /\ peaks[k].FreqBin < peaks[l].FreqBin
    /\ \E k, l \in 1..Len(peaks) : peaks[k].Time < peaks[l].Time

\* The bands as PickPeaks gets them, the cells of frame t that are strict
\* local maxima, and those of them in band k.  A cell that is zero is no
\* strict local maximum of a grid of more than one cell.
BandOf(k) == getFrequencyBands(sampleRate, WINDOW_SIZE)[k]
StrictMaxima(t) ==
    { p[2] : p \in { q \in DOMAIN gridCells :
                       /\ q[1] = t
                       /\ \A n \in Neighbours(q[1], q[2]) :
                             GridMag(q[1], q[2]) > GridMag(n[1], n[2]) } }
MaximaOfBand(t, k) == { f \in StrictMaxima(t) : BandOf(k).Start <= f /\ f <= BandOf(k).End }
PeaksOf(t, k) == { c \in 1..Len(peaks) : peaks[c].Time = t /\ peakBands[c] = k }

\* C21: at 44100 Hz every peak of the band 2000-5000 Hz (the sixth) has its
\* bin in 186..464, and at any rate every peak has its bin in 0..2047.
C21_UpperBandBins ==
    \A c \in 1..Len(peaks) :
        /\ 0 <= peaks[c].FreqBin /\ peaks[c].FreqBin <= 2047
        /\ (sampleRate = 44100 /\ peakBands[c] = 6) =>
              (186 <= peaks[c].FreqBin /\ peaks[c].FreqBin <= 464)

C27_NoPeakPastNyquist ==
    \A c \in 1..Len(peaks) :
        (BandEdgesHz[peakBands[c]][1] * 2048) \div (sampleRate \div 2) <= 2047

\* C28: no two peaks of the list have the same frame and the same bin.
C28_NoCellTwice ==
    \A c \in 1..Len(peaks) : \A d \in (c + 1)..Len(peaks) :
        ~(peaks[c].Time = peaks[d].Time /\ peaks[c].FreqBin = peaks[d].FreqBin)

(***************************************************************************)
(* Part IV: properties of the encoders                                     *)
(***************************************************************************)
\* What the specification says of a pair of peaks of the list, read off the
\* list: delta_ms as an exact fraction, the integer part of a time, the
\* canonical string and its hash.
AnchorOf(k) == encPeaks[encPairs[k][1] + 1]
TargetOf(k) == encPeaks[encPairs[k][2] + 1]
DeltaMs(pa, pt) == <<pt.TimeMS[1] * pa.TimeMS[2] - pa.TimeMS[1] * pt.TimeMS[2],
                     pt.TimeMS[2] * pa.TimeMS[2]>>
DeltaInWindow(d) == d[1] > 0 /\ d[1] <= 2000 * d[2]
IntPart(x) == IF x[1] >= 0 THEN x[1] \div x[2] ELSE 0 - ((0 - x[1]) \div x[2])
Canonical(fa, ft, d) == ToString(fa) \o "|" \o ToString(ft) \o "|" \o ToString(d)
\* the pairs (anchor i, target j) the encoders' rule accepts
AcceptedPairs ==
    { q \in (0..(Len(encPeaks) - 1)) \X (0..(Len(encPeaks) - 1)) :
        /\ q[1] < q[2]
        /\ q[2] < q[1] + 15
        /\ DeltaInWindow(DeltaMs(encPeaks[q[1] + 1], encPeaks[q[2] + 1])) }

\* C16: every token of either encoder was appended for an anchor index i and
\* a target index j of the list with i < j, j at most 15 after i and
\* 0 < delta_ms <= 2000; it carries the anchor's time and a hash of that
\* pair's bins (moved by one of the tolerances in the tolerance encoder).
C16_TokensFromPairsInWindow ==
    /\ Len(encPairs) = Len(fingerprints)
    /\ \A k \in 1..Len(fingerprints) :
          LET a == encPairs[k][1]
              t == encPairs[k][2]
              d == DeltaMs(AnchorOf(k), TargetOf(k))
          IN  /\ 0 <= a /\ a < t /\ t <= Len(encPeaks) - 1
              /\ t - a <= 15
              /\ DeltaInWindow(d)
              /\ fingerprints[k].Offset = IntPart(AnchorOf(k).TimeMS)
              /\ \E da, dt \in {-1, 0, 1} :
                    /\ encMode = "base" => (da = 0 /\ dt = 0)
                    /\ fingerprints[k].Hash =
                          <<"sha1", Canonical(AnchorOf(k).FreqBin + da,
                                              TargetOf(k).FreqBin + dt, IntPart(d))>>

\* C16 witness: an encoder returned tokens for a list longer than one fan,
\* with a target 14 places after its anchor, while a pair inside the fan was
\* left out for its delta.
C16_Witness ==
    /\ encPc = "done"
    /\ Len(encPeaks) > 15
    /\ \E k \in 1..Len(encPairs) : encPairs[k][2] - encPairs[k][1] = 14
    /\ \E a \in 0..(Len(encPeaks) - 1) : \E t \in (a + 1)..(Len(encPeaks) - 1) :
          /\ t - a <= 14
          /\ ~DeltaInWindow(DeltaMs(encPeaks[a + 1], encPeaks[t + 1]))
          /\ \A k \in 1..Len(encPairs) : encPairs[k] # <<a, t>>

\* C17: GenerateFingerprints returns one token for each accepted pair and no
\* other, in ascending order of (i, j), and a second call on the same peaks
\* returns the same sequence.
C17_BaseDeterministicInOrder ==
    (encMode = "base" /\ encPc = "done") =>
        /\ Len(encPairs) = Len(fingerprints)
        /\ { encPairs[k] : k \in 1..Len(encPairs) } = AcceptedPairs
        /\ \A k \in 1..(Len(encPairs) - 1) :
              \/ encPairs[k][1] < encPairs[k + 1][1]
              \/ /\ encPairs[k][1] = encPairs[k + 1][1]
                 /\ encPairs[k][2] < encPairs[k + 1][2]
        /\ encRun = 2 => fingerprints = encPrev

\* C17 witness: the second call has returned, with tokens of two anchors and
\* of two targets of one anchor.
C17_Witness ==
    /\ encMode = "base"
    /\ encPc = "done"
    /\ encRun = 2
    /\ \E k, l \in 1..Len(encPairs) : encPairs[k][1] < encPairs[l][1]
    /\ \E k, l \in 1..Len(encPairs) :
          encPairs[k][1] = encPairs[l][1] /\ encPairs[k][2] < encPairs[l][2]

\* C18: a base token's hash is the SHA-1 of "<anchor bin>|<target bin>|<the
\* integer part of delta_ms>" and its offset the integer part of the
\* anchor's time; for bins 123 and 456 and 789 ms it is that of "123|456|789".
C18_BaseHashCanonical ==
    encMode = "base" =>
        \A k \in 1..Len(fingerprints) :
            LET d == IntPart(DeltaMs(AnchorOf(k), TargetOf(k)))
            IN  /\ fingerprints[k].Hash =
                      <<"sha1", Canonical(AnchorOf(k).FreqBin, TargetOf(k).FreqBin, d)>>
                /\ fingerprints[k].Offset = IntPart(AnchorOf(k).TimeMS)
                /\ (AnchorOf(k).FreqBin = 123 /\ TargetOf(k).FreqBin = 456 /\ d = 789)
                      => fingerprints[k].Hash = <<"sha1", "123|456|789">>

\* C18 witness: the base encoder returned the token of bins 123 and 456,
\* 789.5 ms apart, and a token whose anchor has a negative time.
C18_Witness ==
    /\ encMode = "base"
    /\ encPc = "done"
    /\ \E k \in 1..Len(fingerprints) :
          /\ fingerprints[k].Hash = <<"sha1", "123|456|789">>
          /\ DeltaMs(AnchorOf(k), TargetOf(k)) = <<3158, 4>>
    /\ \E k \in 1..Len(fingerprints) : AnchorOf(k).TimeMS[1] < 0

\* C19: the tolerance encoder never holds, and so never returns, more than
\* 10 000 tokens.
C19_ToleranceAtMost10000 ==
    encMode = "tolerance" => Len(fingerprints) <= 10000

\* C23 as stated: the store is queried only for at least 20 peaks and at
\* least 50 tokens of the base encoder, the tolerance tokens not counted.
C23_QueryNeedsFiftyBaseTokens ==
    (encMode = "microphone" /\ encPc = "queried") =>
        (Len(encPeaks) >= 20 /\ Len(encPrev) >= 50)

\* C23 as amended: a recognition goroutine queries the store if and only if
\* it has at least 20 peaks and the microphone encoder returned at least 50
\* tokens, base and tolerance tokens together; otherwise it ends without a
\* query.
C23_QueryNeedsFiftyTokens ==
    encMode = "microphone" =>
        /\ encPc = "queried" => (Len(encPeaks) >= 20 /\ Len(fingerprints) >= 50)
        /\ encPc = "discarded" => (Len(encPeaks) < 20 \/ Len(fingerprints) < 50)
        /\ (encPc = "discarded" /\ Len(encPeaks) < 20) => fingerprints = << >>

\* C23 witness: the store is queried on fewer than 50 base tokens that the
\* tolerance tokens bring to 50 or more.
C23_Witness ==
    /\ encMode = "microphone"
    /\ encPc = "queried"
    /\ Len(encPrev) < 50
    /\ Len(fingerprints) >= 50

\* What C29 says of the tokens of a list, read off the list: a pair the
\* base rule accepts, the tokens of a pair for a list of perturbations, and
\* the tokens of the anchors 0, step, 2 * step, ... with their targets in
\* ascending order (cell m is the pair of anchor step * (m \div 14) and of
\* the target m % 14 + 1 places after it).
Perturbations == << <<-1, 0>>, <<1, 0>>, <<0, -1>>, <<0, 1>> >>
PairAccepted(a, t) ==
    /\ t <= Len(encPeaks) - 1
    /\ DeltaInWindow(DeltaMs(encPeaks[a + 1], encPeaks[t + 1]))
ExpectedOfPair(a, t, perts) ==
    LET pa == encPeaks[a + 1]
        pt == encPeaks[t + 1]
        kept == SelectSeq(perts, LAMBDA p : /\ pa.FreqBin + p[1] \in 0..2048
                                            /\ pt.FreqBin + p[2] \in 0..2048)
    IN  [c \in 1..Len(kept) |->
            [Hash |-> <<"sha1", Canonical(pa.FreqBin + kept[c][1], pt.FreqBin + kept[c][2],
                                          IntPart(DeltaMs(pa, pt)))>>,
             Offset |-> IntPart(pa.TimeMS)]]
RECURSIVE ExpectedTokens(_, _, _, _)
ExpectedTokens(step, perts, lo, hi) ==
    IF lo > hi THEN << >>
    ELSE IF lo = hi
      THEN LET a == step * (lo \div 14)
               t == a + 1 + (lo % 14)
           IN  IF PairAccepted(a, t) THEN ExpectedOfPair(a, t, perts) ELSE << >>
    ELSE LET mid == (lo + hi) \div 2
         IN  ExpectedTokens(step, perts, lo, mid) \o ExpectedTokens(step, perts, mid + 1, hi)
ExpectedOfList(step, perts) ==
    ExpectedTokens(step, perts, 0, 14 * ((Len(encPeaks) + step - 1) \div step) - 1)
IsPrefix(s, t) == Len(s) <= Len(t) /\ \A k \in 1..Len(s) : s[k] = t[k]
\* a call of the tolerance encoder has returned, on its own or inside
\* GenerateFingerprintsForMicrophone, and what it returned
ToleranceReturned ==
    \/ encMode = "tolerance" /\ encPc = "done"
    \/ encMode = "microphone" /\ encPc \in {"gateTokens", "queried"}
ToleranceOutput ==
    IF encMode = "microphone"
      THEN SubSeq(fingerprints, Len(encPrev) + 1, Len(fingerprints))
      ELSE fingerprints
MicrophoneIsBaseThenTolerance ==
    encMode = "microphone" =>
        /\ Len(encPrev) <= Len(fingerprints)
        /\ SubSeq(fingerprints, 1, Len(encPrev)) = encPrev
        /\ encPrev = ExpectedOfList(1, << <<0, 0>> >>)

\* C29 as stated: the tolerance encoder returns, for the anchors 0, 4, 8,
\* ... and each accepted pair, the four perturbed tokens in the order
\* (-1,0), (+1,0), (0,-1), (0,+1) without those whose bin leaves [0, 2048],
\* each with the integer part of the anchor's time; and
\* GenerateFingerprintsForMicrophone returns the base tokens followed by them.
C29_ToleranceTokensOfEveryPair ==
    ToleranceReturned =>
        /\ ToleranceOutput = ExpectedOfList(4, Perturbations)
        /\ MicrophoneIsBaseThenTolerance

\* C29 as amended: the tolerance encoder returns those tokens in that order
\* up to the point where its limit makes it return: a prefix of them, all of
\* them when there are at most 10 000 and at least 10 000 otherwise; and
\* GenerateFingerprintsForMicrophone returns the base tokens followed by
\* what the tolerance encoder returned.
C29_ToleranceTokensUpToLimit ==
    ToleranceReturned =>
        LET expected == ExpectedOfList(4, Perturbations)
        IN  /\ IsPrefix(ToleranceOutput, expected)
            /\ Len(expected) <= 10000 => ToleranceOutput = expected
            /\ Len(expected) > 10000 => Len(ToleranceOutput) >= 10000
            /\ MicrophoneIsBaseThenTolerance

\* C29 witness: GenerateFingerprintsForMicrophone returned base tokens
\* followed by tolerance tokens of the anchors 0 and 4, with fewer than four
\* tokens for a pair whose perturbed bins leave the range.
C29_Witness ==
    /\ encMode = "microphone"
    /\ encPc = "queried"
    /\ encPrev # << >>
    /\ Len(fingerprints) > Len(encPrev)
    /\ \E k \in (Len(encPrev) + 1)..Len(encPairs) : encPairs[k][1] = 4
    /\ \E k \in (Len(encPrev) + 1)..Len(encPairs) :
          Len(ExpectedOfPair(encPairs[k][1], encPairs[k][2], Perturbations)) < 4

(***************************************************************************)
(* Part V: properties of the command line                                  *)
(***************************************************************************)
\* no flag selects a mode
NoModeSelected ==
    /\ mainFlags.file = ""
    /\ mainFlags.recognize = ""
    /\ ~mainFlags.microphone
    /\ ~mainFlags.list
    /\ ~mainFlags.cleanup
    /\ mainFlags.delete < 0

\* C20: one run calls at most one of the six operations; a run with no mode
\* selected calls none and, once it has exited, has reported an error and
\* has a non-zero exit code; a run whose List returned no song exits with 0.
C20_ModesExclusive ==
    /\ Len(mainOps) <= 1
    /\ NoModeSelected =>
          /\ mainOps = << >>
          /\ mainPc # "blocked"
          /\ mainPc = "exited" => (mainErrors >= 1 /\ exitCode # 0 /\ exitCode # -1)
    /\ mainSongs = 0 => (mainOps = <<"list">> /\ mainPc = "exited" /\ exitCode = 0)

\* C20 witness: a run with every mode selected at once has exited after one
\* operation.
C20_Witness ==
    /\ mainFlags.file # "" /\ mainFlags.recognize # ""
    /\ mainFlags.microphone /\ mainFlags.list /\ mainFlags.cleanup
    /\ mainFlags.delete >= 0
    /\ mainPc = "exited"
    /\ exitCode = 0
    /\ Len(mainOps) = 1

\* C20 witness: a run with no mode selected got past the configuration and
\* the application and exited.
C20_WitnessNoMode ==
    /\ NoModeSelected
    /\ mainFlags.delete = -5
    /\ mainPc = "exited"
    /\ mainErrors = 1

\* C20 witness: List returned no song.
C20_WitnessEmptyList == mainSongs = 0 /\ mainPc = "exited"

(***************************************************************************)
(* Part II: properties of the capture buffer and of the jobs               *)
(***************************************************************************)
\* C22: a recognition goroutine started by a tick runs the pipeline on a
\* 5-second window; one started on less returns before the pipeline (line
\* 565), so every goroutine a tick has started and that has not yet run must
\* hold 5 seconds of audio.
C22_JobsRunOnFiveSeconds ==
    \A j \in BagToSet(jobs) : j.pc = "run" => TotalLen(j.snap) = 5 * 44100

\* C24: every snapshot GetAudioBuffer handed to a recognition goroutine is
\* one run of consecutive captured samples, in capture order.
C24_SnapshotsContiguous ==
    \A j \in BagToSet(jobs) : j.pc = "run" => Len(j.snap) <= 1

\* C30: whenever the capture callback has completed, the buffer is the last
\* min(N, 441000) of the N samples captured so far, in capture order; and a
\* callback with an empty input leaves the buffer as it is.
C30_BufferIsRecentSuffix ==
    /\ [](cbPc = "idle" =>
            audioBuffer = IF captured = 0 THEN << >>
                          ELSE << <<captured - Min(captured, 441000),
                                    Min(captured, 441000)>> >>)
    /\ [][(callbacks' = callbacks + 1 /\ captured' = captured)
            => (audioBuffer' = audioBuffer /\ cbPc' = "idle")]_vars

\* C30 witness: a callback has completed on a buffer that had grown above 10
\* seconds, and the oldest samples are gone.
C30_Witness ==
    /\ cbPc = "idle"
    /\ captured > 441000
    /\ audioBuffer = << <<captured - 441000, 441000>> >>

\* C25: every processAudioSegment goroutine the recorder has started
\* terminates: whenever some are in flight, a state follows in which none is,
\* whether or not the loop still receives from resultChannel.
C25_SegmentJobsTerminate ==
    (segRunning + segSending > 0) ~> (segRunning + segSending = 0)

\* C31: the recorder is recording (IsRecording() returns mr.isRecording)
\* exactly when its capture stream has been started and not yet stopped,
\* whatever calls of StartRecording, StopRecording and Cleanup came before,
\* the failing ones included.
C31_RecordingIffStreamStarted == isRecording <=> (streamState = "started")

====
